---- MODULE Spec2Model ----
(***************************************************************************)
(* ulog2skewt (src/main.py): one run of the pipeline                       *)
(*   process_ulog_to_dataframe -> calculate_derived_values ->              *)
(*   get_user_index_range -> window selection -> plot_skewt                *)
(* as a state machine.  Numbers are fixed-point thousandths (a cell        *)
(* Fin(20000) is 20.0); a missing value is NaN.  Timestamps are whole      *)
(* microseconds in the log and whole seconds since the epoch in a table.   *)
(***************************************************************************)
EXTENDS Integers, Sequences, FiniteSets, TLC

VARIABLES
    data_list,      \* ulog.data_list: the decoded streams of the log
    order,          \* iteration order of selected_columns.items()
    pc,             \* position of the run
    i,              \* position of the topic loop of process_ulog_to_dataframe
    master_df,      \* the table process_ulog_to_dataframe builds, later extended in place
    df_resampled,   \* the resampled series of the topic processed last
    df,             \* the table the name df of __main__ is bound to
    warnings,       \* topics logged by logging.warning
    error,          \* the exception that ended the run, if any
    log,            \* levels of the diagnostics logged (error, critical)
    stages,         \* the stages that returned normally, in order
    start_time,     \* get_user_index_range's results
    end_time,
    plot_invoked,   \* plot_skewt was called
    barbs           \* row positions handed to skew.plot_barbs

vars == <<data_list, order, pc, i, master_df, df_resampled, df, warnings, error,
          log, stages, start_time, end_time, plot_invoked, barbs>>

---------------------------------------------------------------------------
(* Bounds of the model *)

MaxTick == 3        \* raw timestamps are 0 .. MaxTick half seconds
MaxSamples == 2     \* samples per stream
MaxRows == 60       \* rows of a table handed to the renderer on its own

---------------------------------------------------------------------------
(* Values *)

NaN == <<"nan", 0>>
PosInf == <<"+inf", 0>>
NegInf == <<"-inf", 0>>
Fin(x) == <<"fin", x>>
IsFin(v) == v[1] = "fin"
IsNaN(v) == v[1] = "nan"
Num(v) == v[2]

\* df["timestamp"] / 1e6
Scale == 1000000

\* selected_columns of __main__
selected_columns ==
    << [topic |-> "sensor_baro", columns |-> <<"pressure">>],
       [topic |-> "todd_sensor", columns |-> <<"sht_humidity", "therm_temp_celcius">>],
       [topic |-> "wind", columns |-> <<"windspeed_north", "windspeed_east">>] >>

Range(s) == {s[k] : k \in DOMAIN s}

ColumnsOf(k) == Range(selected_columns[k].columns)

Permutations3 == {p \in [1..3 -> 1..3] : Range(p) = 1..3}

---------------------------------------------------------------------------
(* Tables: cols is the set of column names, cell maps each index value (a   *)
(* whole second) to the row, a function from cols to values.  The index is  *)
(* DOMAIN cell, kept in ascending order by pandas.                          *)

Index(t) == DOMAIN t.cell

\* pd.DataFrame()
EmptyFrame == [cols |-> {}, cell |-> [s \in {} |-> <<>>]]

\* DataFrame.empty: some axis has length 0
IsEmpty(t) == t.cols = {} \/ Index(t) = {}

Min(S) == CHOOSE x \in S : \A y \in S : x <= y
Max(S) == CHOOSE x \in S : \A y \in S : x >= y

\* pd.to_datetime(index, unit='s').round('s') of timestamp / 1e6: nearest whole
\* second, a tie going to the even second
RoundSec(us) ==
    LET q == us \div Scale
        r == us % Scale
    IN  IF 2 * r < Scale THEN q
        ELSE IF 2 * r > Scale THEN q + 1
        ELSE IF q % 2 = 0 THEN q ELSE q + 1

RECURSIVE SumSeq(_)
SumSeq(s) == IF s = <<>> THEN 0 ELSE Head(s) + SumSeq(Tail(s))

\* .mean() of one column over the rows of one bin: missing values are skipped,
\* a bin without a value is missing
MeanOf(rows, c) ==
    LET present == SelectSeq(rows, LAMBDA r : IsFin(r.vals[c]))
        nums == [k \in DOMAIN present |-> Num(present[k].vals[c])]
    IN  IF present = <<>> THEN NaN ELSE Fin(SumSeq(nums) \div Len(present))

\* Variant of Resample: the rows grouped by their rounded second, with no bin
\* for a second without samples
ResampleGroupBy(data, columns) ==
    LET secs == {RoundSec(data[k].timestamp) : k \in DOMAIN data}
        InBin(s) == SelectSeq(data, LAMBDA r : RoundSec(r.timestamp) = s)
    IN  [cols |-> columns,
         cell |-> [s \in secs |-> [c \in columns |-> MeanOf(InBin(s), c)]]]

\* lines 25-32: keep the configured columns, index by the rounded second,
\* resample('1s').mean(): one bin per second from the first to the last
Resample(data, columns) ==
    LET secs == {RoundSec(data[k].timestamp) : k \in DOMAIN data}
        bins == IF secs = {} THEN {} ELSE Min(secs) .. Max(secs)
        InBin(s) == SelectSeq(data, LAMBDA r : RoundSec(r.timestamp) = s)
    IN  [cols |-> columns,
         cell |-> [s \in bins |-> [c \in columns |-> MeanOf(InBin(s), c)]]]

\* master_df.join(df_resampled, how='outer')
JoinOuter(a, b) ==
    LET At(t, s, c) == IF s \in Index(t) THEN t.cell[s][c] ELSE NaN
    IN  [cols |-> a.cols \cup b.cols,
         cell |-> [s \in Index(a) \cup Index(b) |->
                      [c \in a.cols \cup b.cols |->
                          IF c \in a.cols THEN At(a, s, c) ELSE At(b, s, c)]]]

\* lines 34-37
Merge(master, resampled) ==
    IF IsEmpty(master) THEN resampled ELSE JoinOuter(master, resampled)

\* Variant of DropNaAll: dropna(how="any")
DropNaAny(t) ==
    LET keep == {s \in Index(t) : \A c \in t.cols : ~IsNaN(t.cell[s][c])}
    IN  [cols |-> t.cols, cell |-> [s \in keep |-> t.cell[s]]]

\* master_df.dropna(how="all")
DropNaAll(t) ==
    LET keep == {s \in Index(t) : \E c \in t.cols : ~IsNaN(t.cell[s][c])}
    IN  [cols |-> t.cols, cell |-> [s \in keep |-> t.cell[s]]]

---------------------------------------------------------------------------
(* The log.  A stream is [name, fields, data]; data is message.data as a    *)
(* sequence of samples [timestamp, vals], vals a function from the stream's *)
(* fields to values.                                                        *)

HalfSec == Scale \div 2
Ticks == 0 .. MaxTick

\* values a sample of each configured topic may carry
Payloads(k) ==
    CASE k = 1 -> { [c \in ColumnsOf(1) |-> Fin(95000000)] }
      [] k = 2 -> { [c \in ColumnsOf(2) |->
                        IF c = "sht_humidity" THEN Fin(h) ELSE Fin(20000)] :
                    h \in {0, 50000} }
      [] k = 3 -> { [c \in ColumnsOf(3) |->
                        IF c = "windspeed_north" THEN Fin(3000) ELSE Fin(4000)],
                    [c \in ColumnsOf(3) |-> NaN] }

RECURSIVE SortedSeq(_)
SortedSeq(S) == IF S = {} THEN <<>> ELSE <<Min(S)>> \o SortedSeq(S \ {Min(S)})

\* a stream is sampled at a fixed period
Periodic(S) ==
    \E step \in 1 .. MaxTick + 1 :
        \A t \in S : t = Min(S) \/ t - step \in S

\* sample sequences with strictly increasing timestamps, between lo and
\* MaxSamples samples long
DataSets(k, lo) ==
    UNION { { [n \in 1..Cardinality(S) |->
                  [timestamp |-> SortedSeq(S)[n] * HalfSec,
                   vals |-> p[SortedSeq(S)[n]]]] : p \in [S -> Payloads(k)] } :
            S \in {T \in SUBSET Ticks :
                       Cardinality(T) \in lo .. MaxSamples /\ (T = {} \/ Periodic(T))} }

\* a stream of topic k with its whole schema
FullStreams(k, lo) ==
    { [name |-> selected_columns[k].topic, fields |-> ColumnsOf(k), data |-> d] :
      d \in DataSets(k, lo) }

\* a stream of topic k whose schema lacks one configured field
PartialStreams(k) ==
    { [name |-> selected_columns[k].topic, fields |-> ColumnsOf(k) \ {f},
       data |-> << [timestamp |-> 0,
                    vals |-> [c \in ColumnsOf(k) \ {f} |-> Fin(0)]] >>] :
      f \in ColumnsOf(k) }

\* a stream no configured topic names, though its name starts like one
OtherStream ==
    [name |-> "wind_estimate", fields |-> {"windspeed_north"},
     data |-> << [timestamp |-> 0, vals |-> [c \in {"windspeed_north"} |-> Fin(9000)]] >>]

\* what the log may hold for topic k: nothing, or one stream
Slot(k, lo) == {<<>>} \cup {<<m>> : m \in FullStreams(k, lo) \cup PartialStreams(k)}

\* next(msg for msg in ulog.data_list if msg.name == topic): the positions that match
Matches(list, topic) == {n \in DOMAIN list : list[n].name = topic}

Topic(n) == selected_columns[order[n]].topic
Columns(n) == ColumnsOf(order[n])

NoError == [kind |-> "none", stage |-> "none", what |-> "none"]

---------------------------------------------------------------------------
(* process_ulog_to_dataframe *)

InitRun(lo) ==
    /\ \E a \in Slot(1, lo), b \in Slot(2, lo), c \in Slot(3, lo) :
          data_list = <<OtherStream>> \o a \o b \o c
    /\ pc = "loop"
    /\ i = 1
    /\ master_df = EmptyFrame
    /\ df_resampled = EmptyFrame
    /\ df = EmptyFrame
    /\ warnings = {}
    /\ error = NoError
    /\ log = <<>>
    /\ stages = <<>>
    /\ start_time = 0
    /\ end_time = 0
    /\ plot_invoked = FALSE
    /\ barbs = {}

\* ULog keeps a stream only if it holds data, and the topics are read in the
\* order selected_columns lists them
Init == InitRun(1) /\ order = [n \in 1..3 |-> n]

\* Variant of Abort: the stage logs the exception and the run goes on to the plot
AbortButPlot(kind, stage, what) ==
    /\ error' = [kind |-> kind, stage |-> stage, what |-> what]
    /\ log' = log \o <<"error">>
    /\ pc' = "plot"

\* an exception leaving a stage: the stage logs it and re-raises, __main__
\* logs it as critical and the run ends
Abort(kind, stage, what) ==
    /\ error' = [kind |-> kind, stage |-> stage, what |-> what]
    /\ log' = log \o <<"error", "critical">>
    /\ pc' = "aborted"

\* lines 22-37, the topic is in the log with all its configured fields
LoopTopicFound ==
    /\ pc = "loop" /\ i <= 3
    /\ Matches(data_list, Topic(i)) # {}
    /\ LET message == data_list[Min(Matches(data_list, Topic(i)))]
       IN  /\ Columns(i) \subseteq message.fields
           /\ df_resampled' = Resample(message.data, Columns(i))
           /\ master_df' = Merge(master_df, df_resampled')
    /\ i' = i + 1
    /\ UNCHANGED <<data_list, order, pc, df, warnings, error, log, stages,
                   start_time, end_time, plot_invoked, barbs>>

\* Variant of LoopTopicMissing: StopIteration is not caught inside the loop
LoopTopicMissingRaises ==
    /\ pc = "loop" /\ i <= 3
    /\ Matches(data_list, Topic(i)) = {}
    /\ Abort("StopIteration", "extract", Topic(i))
    /\ UNCHANGED <<data_list, order, i, master_df, df_resampled, df, warnings,
                   stages, start_time, end_time, plot_invoked, barbs>>

\* lines 22, 38-39: StopIteration, the topic is not in the log
LoopTopicMissing ==
    /\ pc = "loop" /\ i <= 3
    /\ Matches(data_list, Topic(i)) = {}
    /\ warnings' = warnings \cup {Topic(i)}
    /\ i' = i + 1
    /\ UNCHANGED <<data_list, order, pc, master_df, df_resampled, df, error, log,
                   stages, start_time, end_time, plot_invoked, barbs>>

\* line 25 raises KeyError: a configured field is not in the stream; lines 43-45
LoopFieldNotFound ==
    /\ pc = "loop" /\ i <= 3
    /\ Matches(data_list, Topic(i)) # {}
    /\ LET message == data_list[Min(Matches(data_list, Topic(i)))]
       IN  /\ ~(Columns(i) \subseteq message.fields)
           /\ Abort("KeyError", "extract",
                    CHOOSE c \in Columns(i) : c \notin message.fields)
    /\ UNCHANGED <<data_list, order, i, master_df, df_resampled, df, warnings,
                   stages, start_time, end_time, plot_invoked, barbs>>

\* line 41
DropNa ==
    /\ pc = "loop" /\ i = 4
    /\ master_df' = DropNaAll(master_df)
    /\ pc' = "return"
    /\ UNCHANGED <<data_list, order, i, df_resampled, df, warnings, error, log,
                   stages, start_time, end_time, plot_invoked, barbs>>

\* lines 42 and 155: the table is returned to __main__, the log object is dropped
Return ==
    /\ pc = "return"
    /\ df' = master_df
    /\ data_list' = <<>>
    /\ stages' = Append(stages, "extract")
    /\ pc' = "derive"
    /\ UNCHANGED <<order, i, master_df, df_resampled, warnings, error, log,
                   start_time, end_time, plot_invoked, barbs>>

NextExtract ==
    \/ LoopTopicFound
    \/ LoopTopicMissing
    \/ LoopFieldNotFound
    \/ DropNa
    \/ Return

---------------------------------------------------------------------------
(* calculate_derived_values.  The arithmetic is numpy's on IEEE doubles:    *)
(* log(0) is -inf and no exception, -inf / +inf is NaN, a NaN operand       *)
(* gives NaN.  Finite results are fixed-point thousandths.                  *)

RECURSIVE SqrtBetween(_, _, _)
SqrtBetween(x, lo, hi) ==
    IF lo >= hi THEN lo
    ELSE LET mid == (lo + hi + 1) \div 2
         IN  IF mid * mid <= x THEN SqrtBetween(x, mid, hi)
             ELSE SqrtBetween(x, lo, mid - 1)

\* np.sqrt(north**2 + east**2), line 51
Magnitude(north, east) ==
    IF IsNaN(north) \/ IsNaN(east) THEN NaN
    ELSE Fin(SqrtBetween(Num(north) * Num(north) + Num(east) * Num(east), 0, 46340))

\* arctan(2^-k) in thousandths of a degree
AtanTable == <<45000, 26565, 14036, 7125, 3576, 1790, 895, 448, 224, 112, 56>>

RECURSIVE Pow2(_)
Pow2(k) == IF k = 0 THEN 1 ELSE 2 * Pow2(k - 1)

\* the angle of (x, y), x > 0, by rotating the vector onto the x axis
RECURSIVE Rotate(_, _, _, _)
Rotate(x, y, k, angle) ==
    IF k > Len(AtanTable) \/ y = 0 THEN angle
    ELSE IF y > 0
         THEN Rotate(x + y \div Pow2(k - 1), y - x \div Pow2(k - 1), k + 1,
                     angle + AtanTable[k])
         ELSE Rotate(x - y \div Pow2(k - 1), y + x \div Pow2(k - 1), k + 1,
                     angle - AtanTable[k])

\* np.arctan2(east, north) * (180 / np.pi), line 52: degrees in (-180, 180]
Direction(north, east) ==
    IF IsNaN(north) \/ IsNaN(east) THEN NaN
    ELSE LET x == Num(north) * 1024
             y == Num(east) * 1024
         IN  IF x > 0 THEN Fin(Rotate(x, y, 1, 0))
             ELSE IF x < 0
                  THEN IF y >= 0 THEN Fin(180000 + Rotate(-x, -y, 1, 0))
                       ELSE Fin(Rotate(-x, -y, 1, 0) - 180000)
             ELSE IF y > 0 THEN Fin(90000)
             ELSE IF y < 0 THEN Fin(-90000)
             ELSE Fin(0)

\* 10000 * ln(m) for m = num / den in [1, 2): 2 * atanh((m - 1) / (m + 1))
LnMantissa(num, den) ==
    LET z == ((num - den) * 10000) \div (num + den)
        z2 == (z * z) \div 10000
        z3 == (z * z2) \div 10000
        z5 == (z3 * z2) \div 10000
        z7 == (z5 * z2) \div 10000
    IN  2 * (z + z3 \div 3 + z5 \div 5 + z7 \div 7)

\* 10000 * ln(num / den), num > 0 and den > 0
RECURSIVE Ln10000(_, _)
Ln10000(num, den) ==
    IF num < den THEN Ln10000(2 * num, den) - 6931
    ELSE IF num >= 2 * den THEN Ln10000(num, 2 * den) + 6931
    ELSE LnMantissa(num, den)

\* lines 55-59: e = 6.112 * exp(17.67 T / (T + 243.5)) * RH, kept as its sign
\* and, when positive, 1000 * ln(e / 6.112) = 1000 * (17.67 T / (T + 243.5) + ln RH)
VaporPressure(T, H) ==
    IF IsNaN(T) \/ IsNaN(H) THEN <<"nan", 0>>
    ELSE IF Num(H) = 0 \/ Num(T) + 243500 = 0 THEN <<"zero", 0>>
    ELSE IF Num(H) < 0 THEN <<"neg", 0>>
    ELSE <<"pos", (17670 * Num(T)) \div (Num(T) + 243500)
                  + Ln10000(Num(H), 100000) \div 10>>

\* Variant of LogRatio: the ratio is clamped at 0.001 before the logarithm
LogRatioClamped(e) ==
    CASE e[1] = "pos" -> Fin(e[2])
      [] e[1] = "zero" -> Fin(-6908)
      [] OTHER -> NaN

\* np.log(e / 6.112): -inf at 0, NaN below 0
LogRatio(e) ==
    CASE e[1] = "pos" -> Fin(e[2])
      [] e[1] = "zero" -> NegInf
      [] OTHER -> NaN

\* line 62: (243.5 * L) / (17.67 - L)
DewpointOfLog(L) ==
    LET numer == IF IsFin(L) THEN Fin(243500 * Num(L)) ELSE L
        denom == IF IsFin(L) THEN Fin(17670 - Num(L))
                 ELSE IF L = NegInf THEN PosInf
                 ELSE IF L = PosInf THEN NegInf
                 ELSE NaN
    IN  IF IsNaN(numer) \/ IsNaN(denom) THEN NaN
        ELSE IF IsFin(numer) /\ IsFin(denom)
             THEN IF Num(denom) # 0 THEN Fin(Num(numer) \div Num(denom))
                  ELSE IF Num(numer) > 0 THEN PosInf
                  ELSE IF Num(numer) < 0 THEN NegInf
                  ELSE NaN
        ELSE IF IsFin(numer) THEN Fin(0)
        ELSE IF IsFin(denom)
             THEN IF (numer = PosInf) = (Num(denom) >= 0) THEN PosInf ELSE NegInf
        ELSE NaN

Dewpoint(T, H) == DewpointOfLog(LogRatio(VaporPressure(T, H)))

\* df[name] = column, a value for every row
WithColumn(t, name, column) ==
    [cols |-> t.cols \cup {name},
     cell |-> [s \in Index(t) |->
                  [c \in t.cols \cup {name} |->
                      IF c = name THEN column[s] ELSE t.cell[s][c]]]]

\* lines 51-52
WithWind(t) ==
    LET north(s) == t.cell[s]["windspeed_north"]
        east(s) == t.cell[s]["windspeed_east"]
    IN  WithColumn(
            WithColumn(t, "wind_magnitude",
                       [s \in Index(t) |-> Magnitude(north(s), east(s))]),
            "wind_direction",
            [s \in Index(t) |-> Direction(north(s), east(s))])

\* lines 55-62
WithDewpoint(t) ==
    WithColumn(t, "dewpoint",
               [s \in Index(t) |->
                   Dewpoint(t.cell[s]["therm_temp_celcius"], t.cell[s]["sht_humidity"])])

\* the first of the columns the table lacks, "none" when it has them all
RECURSIVE FirstMissing(_, _)
FirstMissing(t, names) ==
    IF names = <<>> THEN "none"
    ELSE IF Head(names) \notin t.cols THEN Head(names)
    ELSE FirstMissing(t, Tail(names))

\* lines 48-66; the table is changed in place, so the wind columns are there
\* even when line 55 or 56 raises
CalculateDerived ==
    /\ pc = "derive"
    /\ IF FirstMissing(df, <<"windspeed_north", "windspeed_east">>) # "none"
       THEN /\ Abort("KeyError", "derive",
                     FirstMissing(df, <<"windspeed_north", "windspeed_east">>))
            /\ UNCHANGED <<master_df, df, stages>>
       ELSE IF FirstMissing(df, <<"sht_humidity", "therm_temp_celcius">>) # "none"
       THEN /\ Abort("KeyError", "derive",
                     FirstMissing(df, <<"sht_humidity", "therm_temp_celcius">>))
            /\ master_df' = WithWind(df)
            /\ df' = master_df'
            /\ UNCHANGED stages
       ELSE /\ master_df' = WithDewpoint(WithWind(df))
            /\ df' = master_df'
            /\ stages' = Append(stages, "derive")
            /\ pc' = "range"
            /\ UNCHANGED <<error, log>>
    /\ UNCHANGED <<data_list, order, i, df_resampled, warnings, start_time, end_time,
                   plot_invoked, barbs>>

---------------------------------------------------------------------------
(* get_user_index_range and the window selection of __main__ *)

\* the latest second a table of the model can hold
MaxSec == RoundSec(MaxTick * HalfSec)

\* what the operator may type: a time of day as <<hours, minutes, seconds>>;
\* <<0, 0, 60>> is no time of day
TimeInputs == {<<0, 0, s>> : s \in 0 .. MaxSec} \cup {<<0, 0, 60>>}

\* pd.to_datetime accepts the string
Parses(t) == t[1] \in 0..23 /\ t[2] \in 0..59 /\ t[3] \in 0..59

\* lines 82-84: the date of the first row, at the time of day typed in
ToDatetime(first, t) == (first \div 86400) * 86400 + t[1] * 3600 + t[2] * 60 + t[3]

\* lines 69-89, with the input() answers start_in and end_in
GetUserIndexRange ==
    /\ pc = "range"
    /\ IF Index(df) = {}
       THEN /\ Abort("IndexError", "range", "index")
            /\ UNCHANGED <<start_time, end_time, stages>>
       ELSE \E start_in \in TimeInputs, end_in \in TimeInputs :
              IF ~Parses(start_in) \/ ~Parses(end_in)
              THEN /\ Abort("ValueError", "range",
                            IF ~Parses(start_in) THEN "start_time" ELSE "end_time")
                   /\ UNCHANGED <<start_time, end_time, stages>>
              ELSE /\ start_time' = ToDatetime(Min(Index(df)), start_in)
                   /\ end_time' = ToDatetime(Min(Index(df)), end_in)
                   /\ stages' = Append(stages, "range")
                   /\ pc' = "select"
                   /\ UNCHANGED <<error, log>>
    /\ UNCHANGED <<data_list, order, i, master_df, df_resampled, df, warnings,
                   plot_invoked, barbs>>

\* Variant of Select: the interval is open at its end
SelectHalfOpen(t, start, end) ==
    [cols |-> t.cols,
     cell |-> [s \in {x \in Index(t) : x >= start /\ x < end} |-> t.cell[s]]]

\* df[(df.index >= start_time) & (df.index <= end_time)]
Select(t, start, end) ==
    [cols |-> t.cols,
     cell |-> [s \in {x \in Index(t) : x >= start /\ x <= end} |-> t.cell[s]]]

\* line 161
WindowSelect ==
    /\ pc = "select"
    /\ df' = Select(df, start_time, end_time)
    /\ stages' = Append(stages, "select")
    /\ pc' = "plot"
    /\ UNCHANGED <<data_list, order, i, master_df, df_resampled, warnings, error, log,
                   start_time, end_time, plot_invoked, barbs>>

---------------------------------------------------------------------------
(* plot_skewt *)

\* Variant of BarbStep: the step is rounded up
BarbStepRoundedUp(len) == IF (len + 9) \div 10 < 1 THEN 1 ELSE (len + 9) \div 10

\* lines 113-114
BarbStep(len) == IF len \div 10 < 1 THEN 1 ELSE len \div 10

\* the positions of pressure[::n]
Every(len, n) == {k \in 0 .. len - 1 : k % n = 0}

\* lines 92-134: the columns are read, the barbs are sampled and plotted;
\* wind_speed.max() of no rows raises ValueError
PlotSkewT ==
    /\ pc = "plot"
    /\ plot_invoked' = TRUE
    /\ LET missing == FirstMissing(df, <<"pressure", "therm_temp_celcius", "dewpoint",
                                         "windspeed_north", "windspeed_east",
                                         "wind_magnitude">>)
           len == Cardinality(Index(df))
       IN  IF missing # "none"
           THEN /\ Abort("KeyError", "plot", missing)
                /\ UNCHANGED <<barbs, stages>>
           ELSE /\ barbs' = Every(len, BarbStep(len))
                /\ IF len = 0
                   THEN /\ Abort("ValueError", "plot", "wind_speed")
                        /\ UNCHANGED stages
                   ELSE /\ stages' = Append(stages, "plot")
                        /\ pc' = "done"
                        /\ UNCHANGED <<error, log>>
    /\ UNCHANGED <<data_list, order, i, master_df, df_resampled, df, warnings,
                   start_time, end_time>>

---------------------------------------------------------------------------
(* The run of __main__, lines 155-166 *)

Next ==
    \/ LoopTopicFound
    \/ LoopTopicMissing
    \/ LoopFieldNotFound
    \/ DropNa
    \/ Return
    \/ CalculateDerived
    \/ GetUserIndexRange
    \/ WindowSelect
    \/ PlotSkewT

Spec == Init /\ [][Next]_vars

---------------------------------------------------------------------------
(* The merge over any series: streams may hold no sample, and the topics    *)
(* may be listed in any order.                                              *)

InitAnySeries == InitRun(0) /\ order \in Permutations3

SpecAnySeries == InitAnySeries /\ [][NextExtract]_vars

---------------------------------------------------------------------------
(* The renderer on its own, handed a windowed table of 0 .. MaxRows rows *)

AllColumns ==
    {"pressure", "sht_humidity", "therm_temp_celcius", "windspeed_north",
     "windspeed_east", "wind_magnitude", "wind_direction", "dewpoint"}

RenderTable(len) ==
    [cols |-> AllColumns,
     cell |-> [s \in 0 .. len - 1 |->
                  [c \in AllColumns |->
                      IF c = "pressure" THEN Fin(95000000 - 100000 * s) ELSE Fin(1000)]]]

InitRender ==
    /\ \E len \in 0 .. MaxRows : df = RenderTable(len) /\ end_time = len - 1
    /\ master_df = RenderTable(MaxRows)
    /\ data_list = <<>>
    /\ order = [n \in 1..3 |-> n]
    /\ pc = "plot"
    /\ i = 4
    /\ df_resampled = EmptyFrame
    /\ warnings = {}
    /\ error = NoError
    /\ log = <<>>
    /\ stages = <<"extract", "derive", "range", "select">>
    /\ start_time = 0
    /\ plot_invoked = FALSE
    /\ barbs = {}

SpecRender == InitRender /\ [][PlotSkewT]_vars

---------------------------------------------------------------------------
(* Properties *)

\* topic k of selected_columns has no stream of exactly its name in the log
Absent(k) == Matches(data_list, selected_columns[k].topic) = {}

\* the stream the lookup of topic k returns
StreamOf(k) == data_list[Min(Matches(data_list, selected_columns[k].topic))]

HasSchema(k) == ColumnsOf(k) \subseteq StreamOf(k).fields

\* the rounded seconds at which a sample sequence holds a sample
SampledSeconds(data) == {RoundSec(data[n].timestamp) : n \in DOMAIN data}

\* the topics already looked up by the loop that were found
FoundSoFar == {n \in 1 .. i - 1 : ~Absent(order[n])}

\* the stream df_resampled was made from
LastData == StreamOf(order[Max(FoundSoFar)]).data

HasStage(name) == \E n \in DOMAIN stages : stages[n] = name

\* C1: when process_ulog_to_dataframe reaches its return with a configured
\* topic absent from the log, that topic has a warning and none of its columns
\* is in the table, every topic that is present has all its columns in the
\* table, warnings name absent topics only, and an exception leaves the
\* function only for a stream that lacks a configured field, never for an
\* absent topic.
C1_AbsentTopicWarnedAndSkipped ==
    /\ pc = "return" =>
          \A k \in 1..3 :
             IF Absent(k)
             THEN /\ selected_columns[k].topic \in warnings
                  /\ ColumnsOf(k) \cap master_df.cols = {}
             ELSE /\ selected_columns[k].topic \notin warnings
                  /\ ColumnsOf(k) \subseteq master_df.cols
    /\ (pc = "aborted" /\ error.stage = "extract") =>
          /\ error.kind = "KeyError"
          /\ \E k \in 1..3 : ~Absent(k) /\ ~HasSchema(k)
                             /\ error.what \in ColumnsOf(k) \ StreamOf(k).fields

C1_Witness ==
    /\ pc = "return"
    /\ Absent(3) /\ ~Absent(1) /\ ~Absent(2)
    /\ warnings = {"wind"}
    /\ master_df.cols = ColumnsOf(1) \cup ColumnsOf(2)
    /\ Index(master_df) # {}

\* C2: a run in which exactly one configured topic was reported missing is
\* never ended by an exception about a column of that topic: after the
\* warning the run goes on through derivation, window selection and rendering.
C2_MissingTopicRecoverable ==
    (pc = "aborted" /\ Cardinality(warnings) = 1) =>
       ~(\E k \in 1..3 : /\ selected_columns[k].topic \in warnings
                         /\ error.kind = "KeyError"
                         /\ error.what \in ColumnsOf(k))

\* C3: plot_skewt is invoked only after extraction, derivation, range input and
\* window selection have returned normally, in that order; a run that an
\* earlier stage ends (a configured field absent on a matched topic, a
\* malformed time string) logs a critical diagnostic and never invokes
\* plot_skewt.
C3_RenderOnlyAfterEarlierStages ==
    /\ plot_invoked => /\ Len(stages) >= 4
                       /\ SubSeq(stages, 1, 4) = <<"extract", "derive", "range", "select">>
    /\ (pc = "aborted" /\ error.stage # "plot") =>
          /\ ~plot_invoked
          /\ barbs = {}
          /\ Len(log) >= 1 /\ log[Len(log)] = "critical"
    /\ (error # NoError) <=> (pc = "aborted")

C3_Witness ==
    /\ pc = "aborted"
    /\ error.kind = "KeyError" /\ error.stage = "extract"
    /\ ~plot_invoked
    /\ log = <<"error", "critical">>

\* C4: a window with start > end is rejected before rendering: the renderer
\* is never invoked with start_time > end_time (stated for the logs that hold
\* all three topics, where nothing else ends the run).
C4_InvalidRangeRejected == (plot_invoked /\ warnings = {}) => start_time <= end_time

\* C5: after window selection the table holds exactly the rows of the derived
\* table whose index t satisfies start_time <= t <= end_time, unchanged, with
\* the same columns; with start_time = end_time that is the single row at that
\* timestamp or no row, and the selection itself raises nothing.
C5_ClosedInterval ==
    HasStage("select") =>
       /\ df.cols = master_df.cols
       /\ Index(df) = {t \in Index(master_df) : start_time <= t /\ t <= end_time}
       /\ \A t \in Index(df) : df.cell[t] = master_df.cell[t]
       /\ start_time = end_time =>
             Index(df) = (IF start_time \in Index(master_df) THEN {start_time} ELSE {})
       /\ pc = "plot" => error = NoError

C5_Witness ==
    /\ pc = "plot"
    /\ start_time = end_time
    /\ Index(df) = {start_time}
    /\ Cardinality(Index(master_df)) >= 2
    /\ start_time # Min(Index(master_df))

AsData(t) ==
    LET seconds == SortedSeq(Index(t))
    IN  [n \in 1 .. Len(seconds) |->
            [timestamp |-> seconds[n] * Scale, vals |-> t.cell[seconds[n]]]]

RECURSIVE ProcessInOrder(_, _, _)
ProcessInOrder(list, ord, master) ==
    IF ord = <<>> THEN DropNaAll(master)
    ELSE LET found == Matches(list, selected_columns[Head(ord)].topic)
         IN  IF found = {} THEN ProcessInOrder(list, Tail(ord), master)
             ELSE ProcessInOrder(list, Tail(ord),
                      Merge(master, Resample(list[Min(found)].data, ColumnsOf(Head(ord)))))

C8_ZeroHumidityRowOnly ==
    pc = "range" =>
       LET zero == {s \in Index(master_df) : master_df.cell[s]["sht_humidity"] = Fin(0)}
           rest == [cols |-> master_df.cols \ {"dewpoint"},
                    cell |-> [s \in Index(master_df) \ zero |->
                                 [c \in master_df.cols \ {"dewpoint"} |->
                                     master_df.cell[s][c]]]]
       IN  /\ \A s \in zero : master_df.cell[s]["dewpoint"] = NaN
           /\ \A s \in Index(master_df) \ zero :
                 master_df.cell[s]["dewpoint"] = WithDewpoint(rest).cell[s]["dewpoint"]
           /\ \A s \in Index(master_df) :
                 master_df.cell[s]["dewpoint"] \notin {NegInf, PosInf}
           /\ error = NoError /\ stages = <<"extract", "derive">>

C8_Witness ==
    /\ pc = "range"
    /\ \E s, t \in Index(master_df) :
          /\ master_df.cell[s]["sht_humidity"] = Fin(0)
          /\ master_df.cell[s]["dewpoint"] = NaN
          /\ IsFin(master_df.cell[t]["sht_humidity"])
          /\ Num(master_df.cell[t]["sht_humidity"]) > 0
          /\ IsFin(master_df.cell[t]["dewpoint"])

\* the seconds at which some stream of a configured topic holds a sample with a
\* value that is not missing
ValuedSeconds ==
    UNION { LET data == StreamOf(k).data
            IN  {RoundSec(data[n].timestamp) :
                    n \in {m \in DOMAIN data :
                              \E c \in ColumnsOf(k) : ~IsNaN(data[m].vals[c])}} :
            k \in {j \in 1..3 : ~Absent(j)} }

\* C9: in the table process_ulog_to_dataframe returns, a second is a row if
\* and only if some source has a value that is not missing at that rounded
\* second, and every row has a column that is not missing.
C9_RowIffSomeValue ==
    pc = "return" =>
       /\ Index(master_df) = ValuedSeconds
       /\ \A s \in Index(master_df) : \E c \in master_df.cols : ~IsNaN(master_df.cell[s][c])

C9_Witness ==
    /\ pc = "return"
    /\ Index(master_df) # {}
    /\ ~Absent(3)
    /\ \E s \in SampledSeconds(StreamOf(3).data) :
          /\ s \notin Index(master_df)
          /\ s > Min(Index(master_df)) /\ s < Max(Index(master_df))

====
